---- MODULE Spec2Model ----
(***************************************************************************)
(* Model of src/app.py: a Streamlit dashboard over a spreadsheet of        *)
(* construction tasks.  One script run (one user interaction) is one       *)
(* action.  State that survives a run: the backing file, the st.cache_data *)
(* entry of load_data, the session's widget values and the images table.   *)
(*                                                                         *)
(* Cell values are records [k, s, n]: k is the kind, s the characters of a *)
(* text, n the number of a numeric cell or the day of a date.              *)
(* A column header is a string; headers are modelled already stripped.     *)
(***************************************************************************)
EXTENDS Integers, Sequences, FiniteSets, TLC

\* ------------------------------------------------------------ bounds ----
MaxRows == 2
MaxAdded == 1
MaxBatch == 2
MaxImages == 3
MaxActive == 1
MaxOps == 2

\* ------------------------------------------------------------ values ----
Txt(s) == [k |-> "text", s |-> s, n |-> 0]
Num(n) == [k |-> "num", s |-> << >>, n |-> n]
Date(d) == [k |-> "date", s |-> << >>, n |-> d]
NaN == [k |-> "nan", s |-> << >>, n |-> 0]
None == [k |-> "none", s |-> << >>, n |-> 0]
NaT == [k |-> "nat", s |-> << >>, n |-> 0]

IsNull(v) == v.k \in {"nan", "none", "nat"}

\* the value of a one-element set: binds an intermediate result so that it is
\* computed once
The(S) == CHOOSE x \in S : TRUE

UpperSeq == << "A", "B", "C", "D", "E", "F", "G", "H", "I", "J", "K", "L", "M",
               "N", "O", "P", "Q", "R", "S", "T", "U", "V", "W", "X", "Y", "Z" >>
LowerSeq == << "a", "b", "c", "d", "e", "f", "g", "h", "i", "j", "k", "l", "m",
               "n", "o", "p", "q", "r", "s", "t", "u", "v", "w", "x", "y", "z" >>
DigitSeq == << "0", "1", "2", "3", "4", "5", "6", "7", "8", "9" >>
Whitespace == {" "}

\* str.lower() on one character
LowerChar(c) ==
    IF \E i \in 1..26 : UpperSeq[i] = c
    THEN LowerSeq[CHOOSE i \in 1..26 : UpperSeq[i] = c]
    ELSE c

\* str.lower()
Lower(s) == [i \in 1..Len(s) |-> LowerChar(s[i])]

RECURSIVE LStrip(_)
LStrip(s) == IF s # << >> /\ Head(s) \in Whitespace THEN LStrip(Tail(s)) ELSE s

RECURSIVE RStrip(_)
RStrip(s) ==
    IF s # << >> /\ s[Len(s)] \in Whitespace
    THEN RStrip(SubSeq(s, 1, Len(s) - 1))
    ELSE s

\* str.strip()
Strip(s) == RStrip(LStrip(s))

\* decimal digits of a natural number, as str() prints them
RECURSIVE Digits(_)
Digits(n) ==
    IF n < 10 THEN << DigitSeq[n + 1] >>
    ELSE Append(Digits(n \div 10), DigitSeq[(n % 10) + 1])

\* str(v) of one cell, as Series.astype(str) applies it
AsStr(v) ==
    CASE v.k = "text" -> v.s
      [] v.k = "nan" -> << "n", "a", "n" >>
      [] v.k = "none" -> << "N", "o", "n", "e" >>
      [] v.k = "nat" -> << "N", "a", "T" >>
      [] v.k = "num" ->
            IF v.n < 0 THEN << "-" >> \o Digits(0 - v.n) ELSE Digits(v.n)
      [] OTHER -> << "d" >> \o Digits(v.n)

IsDigit(c) == \E i \in 1..10 : DigitSeq[i] = c
DigitVal(c) == (CHOOSE i \in 1..10 : DigitSeq[i] = c) - 1

RECURSIVE ParseNat(_)
ParseNat(s) ==
    IF s = << >> THEN 0
    ELSE 10 * ParseNat(SubSeq(s, 1, Len(s) - 1)) + DigitVal(s[Len(s)])

AllDigits(s) == s # << >> /\ \A i \in 1..Len(s) : IsDigit(s[i])

\* pd.to_numeric(errors="coerce") on one cell: a number stays, a text of
\* digits (with an optional sign) is parsed, anything else is NaN
ToNumericCell(v) ==
    CASE v.k = "num" -> v
      [] v.k = "text" ->
            IF AllDigits(v.s) THEN Num(ParseNat(v.s))
            ELSE IF v.s # << >> /\ Head(v.s) = "-" /\ AllDigits(Tail(v.s))
                 THEN Num(0 - ParseNat(Tail(v.s)))
                 ELSE NaN
      [] OTHER -> NaN

\* Series.fillna(x) on one cell
FillNa(v, x) == IF IsNull(v) THEN x ELSE v

\* pd.to_numeric(col, errors="coerce").fillna(0) on one cell
CoerceProgress(v) == FillNa(ToNumericCell(v), Num(0))

\* pd.to_datetime(errors="coerce") on one cell of a date column
ToDatetimeCell(v) == IF v.k = "date" THEN v ELSE NaT

\* ------------------------------------------------------------ tables ----
\* A table is [cols |-> set of headers, rows |-> sequence of rows]; a row is
\* a function from the table's headers to cells.
TextCols == {"Status", "Activity", "Item", "Task", "Room"}
DateCols == {"Start Date", "End Date"}
SheetCols == TextCols \cup DateCols \cup {"Order Status", "Progress"}

NotStarted == << "N", "o", "t", " ", "S", "t", "a", "r", "t", "e", "d" >>
NotOrdered == << "N", "o", "t", " ", "O", "r", "d", "e", "r", "e", "d" >>
Ordered == << "O", "r", "d", "e", "r", "e", "d" >>
Finished == << "F", "i", "n", "i", "s", "h", "e", "d" >>
InProgress == << "I", "n", " ", "P", "r", "o", "g", "r", "e", "s", "s" >>
Delivered == << "D", "e", "l", "i", "v", "e", "r", "e", "d" >>
finished == << "f", "i", "n", "i", "s", "h", "e", "d" >>
in_progress == << "i", "n", " ", "p", "r", "o", "g", "r", "e", "s", "s" >>
delivered == << "d", "e", "l", "i", "v", "e", "r", "e", "d" >>

MapCells(t, f(_, _)) ==
    [cols |-> t.cols,
     rows |-> [i \in 1..Len(t.rows) |-> [c \in t.cols |-> f(c, t.rows[i][c])]]]

\* the strings pd.read_excel reads as a missing value (those the model uses)
NaStrings == { << >>, << "n", "a", "n" >>, << "N", "o", "n", "e" >>, << "N", "a", "N" >> }

\* pd.read_excel on one cell of the sheet
ReadExcelCell(v) == IF v.k = "text" /\ v.s \in NaStrings THEN NaN ELSE v

\* DataFrame.to_excel on one cell: a missing value is written as a blank
ToExcelCell(c, v) == IF IsNull(v) THEN NaN ELSE v

\* df.to_excel(DATA_FILE, index=False): the sheet the write leaves
to_excel(t) == MapCells(t, ToExcelCell)

LoadCell(c, v) ==
    CASE c \in DateCols -> ToDatetimeCell(ReadExcelCell(v))
      [] c \in TextCols -> Txt(AsStr(ReadExcelCell(v)))
      [] c = "Progress" -> CoerceProgress(ReadExcelCell(v))
      [] OTHER -> ReadExcelCell(v)

\* load_data(file_path) on an existing sheet
load_data(sheet) ==
    LET cols == sheet.cols \cup {"Order Status", "Progress"}
    IN [cols |-> cols,
        rows |-> [i \in 1..Len(sheet.rows) |->
                    [c \in cols |->
                        IF c \in sheet.cols THEN LoadCell(c, sheet.rows[i][c])
                        ELSE IF c = "Order Status" THEN Txt(NotOrdered)
                        ELSE Num(0)]]]

\* a row typed into the editor, fitted to the columns of the table shown:
\* a cell the user left alone is None
FitRow(tmpl, cols) == [c \in cols |-> IF c \in DOMAIN tmpl THEN tmpl[c] ELSE None]

\* the editor's state before the user touches it: edited_rows holds the cells
\* changed as <<row position, column, value>>, deleted_rows the positions of the
\* rows removed
NoEdits == [edited_rows |-> {}, deleted_rows |-> {}]

\* st.data_editor(df, num_rows="dynamic"): the table with the cells the user
\* changed, then the rows the user appended, less the rows the user removed
data_editor(t, rows, ed) ==
    LET changed == [i \in 1..Len(t.rows) |->
                       [c \in t.cols |->
                           IF \E e \in ed.edited_rows : e[1] = i /\ e[2] = c
                           THEN (CHOOSE e \in ed.edited_rows : e[1] = i /\ e[2] = c)[3]
                           ELSE t.rows[i][c]]]
        kept == SelectSeq([i \in 1..Len(t.rows) |-> i],
                          LAMBDA i : i \notin ed.deleted_rows)
    IN [cols |-> t.cols,
        rows |-> [k \in 1..Len(kept) |-> changed[kept[k]]]
                 \o [i \in 1..Len(rows) |-> FitRow(rows[i], t.cols)]]

\* Series.fillna(x).replace("", x) on one cell
FillBlank(v, x) == IF IsNull(v) \/ v = Txt(<< >>) THEN x ELSE v

EditedCell(c, v) ==
    CASE c = "Status" -> FillBlank(v, Txt(NotStarted))
      [] c = "Order Status" -> FillBlank(v, Txt(NotOrdered))
      [] c = "Progress" -> CoerceProgress(v)
      [] OTHER -> v

\* the re-coercion of the editor's result
PostEditor(t) == MapCells(t, EditedCell)

\* ------------------------------------------------------ filter engine ----
FilterDims == << "Activity", "Item", "Task", "Room", "Status", "Order Status" >>
DimSet == {FilterDims[i] : i \in 1..Len(FilterDims)}

\* Series.astype(str).str.lower().str.strip() on one cell
Norm(v) == Strip(Lower(AsStr(v)))

\* norm_unique(df_input, col): the option list of one filter, as a set
norm_unique(t, col) ==
    IF col \notin t.cols THEN {}
    ELSE {Norm(t.rows[i][col]) :
            i \in {j \in 1..Len(t.rows) : ~IsNull(t.rows[j][col])}}

\* a comparison of two datetime cells; any comparison with NaT is False
DateGE(a, b) == a.k = "date" /\ b.k = "date" /\ a.n >= b.n
DateLE(a, b) == a.k = "date" /\ b.k = "date" /\ a.n <= b.n
DateLT(a, b) == a.k = "date" /\ b.k = "date" /\ a.n < b.n

\* df[mask]: the index labels (positions in the edited table) that survive
SelectIdx(idx, keep) == SelectSeq(idx, LAMBDA i : keep[i])

\* one "if selected: df_filtered = df_filtered[df_filtered[col_norm].isin(selected)]"
ApplyDim(t, idx, sel, d) ==
    IF sel[d] = {} THEN idx
    ELSE SelectIdx(idx, [i \in 1..Len(t.rows) |-> Norm(t.rows[i][d]) \in sel[d]])

\* the six membership filters, in the order of the script
ApplyDims(t, idx, sel) ==
    LET a1 == ApplyDim(t, idx, sel, "Activity")
        a2 == ApplyDim(t, a1, sel, "Item")
        a3 == ApplyDim(t, a2, sel, "Task")
        a4 == ApplyDim(t, a3, sel, "Room")
        a5 == ApplyDim(t, a4, sel, "Status")
    IN ApplyDim(t, a5, sel, "Order Status")

\* the date mask with the end of the range excluded
InRangeEndExcluded(r, date_range) ==
    /\ DateGE(r["Start Date"], date_range[1])
    /\ DateLT(r["End Date"], date_range[2])

\* the date mask of the filter
InRange(r, date_range) ==
    /\ DateGE(r["Start Date"], date_range[1])
    /\ DateLE(r["End Date"], date_range[2])

\* section 4: the index labels of df_filtered
FilterIdx(t, sel, show_finished, date_range) ==
    LET all == [i \in 1..Len(t.rows) |-> i]
        a == ApplyDims(t, all, sel)
        b == IF show_finished THEN a
             ELSE SelectIdx(a, [i \in 1..Len(t.rows) |->
                                  Norm(t.rows[i]["Status"]) \notin {finished, delivered}])
        c == IF Len(date_range) = 2
             THEN SelectIdx(b, [i \in 1..Len(t.rows) |-> InRange(t.rows[i], date_range)])
             ELSE b
    IN c

\* section 4: df_filtered, with the index labels it keeps from edited_df
Filter(t, sel, show_finished, date_range) ==
    LET idx == FilterIdx(t, sel, show_finished, date_range)
    IN [cols |-> t.cols, rows |-> [i \in 1..Len(idx) |-> t.rows[idx[i]]], index |-> idx]

\* Series.min() / Series.max() of a datetime column: NaT is skipped
DateMin(S) ==
    LET D == {v \in S : v.k = "date"}
    IN IF D = {} THEN NaT ELSE CHOOSE v \in D : \A w \in D : v.n <= w.n
DateMax(S) ==
    LET D == {v \in S : v.k = "date"}
    IN IF D = {} THEN NaT ELSE CHOOSE v \in D : \A w \in D : v.n >= w.n

ColValues(t, c) == {t.rows[i][c] : i \in 1..Len(t.rows)}

\* ---------------------------------------------------- gantt aggregator ----
\* now = pd.Timestamp(datetime.today().date()), as a day number
Today == 3
DaySeconds == 86400

Ts(x) == [k |-> "ts", s |-> << >>, n |-> x]

\* a datetime cell as a Timestamp in seconds
AsTs(v) == IF v.k = "date" THEN Ts(v.n * DaySeconds) ELSE NaT

\* the order of characters (by code point) and of texts (lexicographic)
CharOrder == << " ", "-" >> \o DigitSeq \o UpperSeq \o LowerSeq
CharRank(c) ==
    IF \E i \in 1..Len(CharOrder) : CharOrder[i] = c
    THEN CHOOSE i \in 1..Len(CharOrder) : CharOrder[i] = c
    ELSE Len(CharOrder) + 1

RECURSIVE TextLE(_, _)
TextLE(a, b) ==
    IF a = << >> THEN TRUE
    ELSE IF b = << >> THEN FALSE
    ELSE IF Head(a) = Head(b) THEN TextLE(Tail(a), Tail(b))
    ELSE CharRank(Head(a)) < CharRank(Head(b))

\* the order of group keys: a missing key sorts last
CellLE(a, b) ==
    IF IsNull(b) THEN TRUE
    ELSE IF IsNull(a) THEN FALSE
    ELSE TextLE(AsStr(a), AsStr(b))

RECURSIVE KeyLE(_, _)
KeyLE(a, b) ==
    IF a = << >> THEN TRUE
    ELSE IF Head(a) = Head(b) THEN KeyLE(Tail(a), Tail(b))
    ELSE CellLE(Head(a), Head(b))

RECURSIVE SortKeys(_)
SortKeys(S) ==
    IF S = {} THEN << >>
    ELSE LET m == CHOOSE k \in S : \A o \in S : KeyLE(k, o)
         IN << m >> \o SortKeys(S \ {m})

\* group_cols of create_gantt_chart
GroupCols(t, group_by) ==
    << "Activity" >>
    \o (IF "Room" \in group_by /\ "Room" \in t.cols THEN << "Room" >> ELSE << >>)
    \o (IF "Item" \in group_by /\ "Item" \in t.cols THEN << "Item" >> ELSE << >>)
    \o (IF "Task" \in group_by /\ "Task" \in t.cols THEN << "Task" >> ELSE << >>)

\* groupby(dropna=False): every missing value of a dimension is the one key NaN
KeyCell(v) == IF IsNull(v) THEN NaN ELSE v
KeyOf(r, gcols) == [i \in 1..Len(gcols) |-> KeyCell(r[gcols[i]])]

\* the row positions groupby puts in the group of a key
GroupRows(t, gcols, key) == {i \in 1..Len(t.rows) : KeyOf(t.rows[i], gcols) = key}

\* df_input[cond], cond &= (df_input[gcol] == row[gcol]): == is False on a
\* missing value, on either side
SubsetRows(t, gcols, key) ==
    {i \in 1..Len(t.rows) :
        \A g \in 1..Len(gcols) :
            /\ ~IsNull(t.rows[i][gcols[g]])
            /\ ~IsNull(key[g])
            /\ t.rows[i][gcols[g]] = key[g]}

RECURSIVE SumProgress(_, _)
SumProgress(t, I) ==
    IF I = {} THEN 0
    ELSE LET i == CHOOSE j \in I : TRUE
         IN t.rows[i]["Progress"].n + SumProgress(t, I \ {i})

\* grouped: one record per key, in key order; AvgProgress is the mean
\* psum / pcount, kept as a fraction
Grouped(t, gcols) ==
    The({ [k \in 1..Len(keys) |->
             The({ [key |-> keys[k],
                    GroupStart |-> DateMin({t.rows[i]["Start Date"] : i \in I}),
                    GroupEnd |-> DateMax({t.rows[i]["End Date"] : i \in I}),
                    psum |-> SumProgress(t, I),
                    pcount |-> Cardinality(I)] :
                   I \in {GroupRows(t, gcols, keys[k])} })] :
          keys \in {SortKeys({KeyOf(t.rows[i], gcols) : i \in 1..Len(t.rows)})} })

FinishedLabel == "Finished"
DelayedLabel == "Delayed"
InProgressLabel == "In Progress"
FallbackLabel == "Not Started / Delivered / Not Delivered"
CompletedPart == "In Progress (Completed part)"
RemainingPart == "In Progress (Remaining part)"

\* get_aggregated_status(subset_df, avg_progress, end_date); S is the set of
\* row positions of subset_df
get_aggregated_status(t, S, psum, pcount, end_date) ==
    LET statuses == {Lower(Strip(t.rows[i]["Status"].s)) : i \in S}
        all_finished == \A i \in S : Lower(Strip(t.rows[i]["Status"].s)) = finished
    IN IF all_finished \/ psum >= 100 * pcount THEN FinishedLabel
       ELSE IF DateLT(end_date, Date(Today)) /\ psum < 100 * pcount THEN DelayedLabel
       ELSE IF in_progress \in statuses THEN InProgressLabel
       ELSE FallbackLabel

\* f"{x:.0f}" of the fraction a / b: rounded half to even
RoundHalfEven(a, b) ==
    LET q == a \div b
        r == a - q * b
    IN IF 2 * r < b THEN q
       ELSE IF 2 * r > b THEN q + 1
       ELSE IF q % 2 = 0 THEN q ELSE q + 1

\* start + pd.Timedelta(seconds=(end - start).total_seconds() * (avg / 100))
CompletedEnd(start, end, psum, pcount) ==
    IF start.k = "ts" /\ end.k = "ts"
    THEN Ts(start.n + ((end.n - start.n) * psum) \div (100 * pcount))
    ELSE NaT

\* the bars of one group, the remaining bar drawn from the start of the span
GroupSegmentsOverlap(t, gcols, g) ==
    The({ IF status = InProgressLabel /\ 0 < g.psum /\ g.psum < 100 * g.pcount
          THEN << [key |-> g.key, Start |-> start, End |-> completed_end,
                   DisplayStatus |-> CompletedPart,
                   Progress |-> RoundHalfEven(g.psum, g.pcount)],
                  [key |-> g.key, Start |-> start, End |-> end,
                   DisplayStatus |-> RemainingPart,
                   Progress |-> RoundHalfEven(100 * g.pcount - g.psum, g.pcount)] >>
          ELSE << [key |-> g.key, Start |-> start, End |-> end,
                   DisplayStatus |-> status,
                   Progress |-> RoundHalfEven(g.psum, g.pcount)] >> :
          <<status, start, end, completed_end>> \in
             {<< get_aggregated_status(t, SubsetRows(t, gcols, g.key),
                                       g.psum, g.pcount, g.GroupEnd),
                 AsTs(g.GroupStart), AsTs(g.GroupEnd),
                 CompletedEnd(AsTs(g.GroupStart), AsTs(g.GroupEnd), g.psum, g.pcount) >>} })

\* the bars of one group
GroupSegments(t, gcols, g) ==
    The({ IF status = InProgressLabel /\ 0 < g.psum /\ g.psum < 100 * g.pcount
          THEN << [key |-> g.key, Start |-> start, End |-> completed_end,
                   DisplayStatus |-> CompletedPart,
                   Progress |-> RoundHalfEven(g.psum, g.pcount)],
                  [key |-> g.key, Start |-> completed_end, End |-> end,
                   DisplayStatus |-> RemainingPart,
                   Progress |-> RoundHalfEven(100 * g.pcount - g.psum, g.pcount)] >>
          ELSE << [key |-> g.key, Start |-> start, End |-> end,
                   DisplayStatus |-> status,
                   Progress |-> RoundHalfEven(g.psum, g.pcount)] >> :
          <<status, start, end, completed_end>> \in
             {<< get_aggregated_status(t, SubsetRows(t, gcols, g.key),
                                       g.psum, g.pcount, g.GroupEnd),
                 AsTs(g.GroupStart), AsTs(g.GroupEnd),
                 CompletedEnd(AsTs(g.GroupStart), AsTs(g.GroupEnd), g.psum, g.pcount) >>} })

RECURSIVE Concat(_)
Concat(ss) == IF ss = << >> THEN << >> ELSE Head(ss) \o Concat(Tail(ss))

\* gantt_segments of create_gantt_chart(df_input)
GanttSegments(t, group_by) ==
    IF t.rows = << >> THEN << >>
    ELSE The({ Concat([k \in 1..Len(grouped) |-> GroupSegments(t, gcols, grouped[k])]) :
               <<gcols, grouped>> \in
                  {<<gc, Grouped(t, gc)>> : gc \in {GroupCols(t, group_by)}} })

\* ------------------------------------------------- row/column store ----
EmptyTable == [cols |-> {}, rows |-> << >>]
EmptyFiltered == [cols |-> {}, rows |-> << >>, index |-> << >>]

Msg(where, level, text) == [where |-> where, level |-> level, text |-> text]

\* str.isdigit(): every character is a decimal digit or a digit such as the
\* superscript two, which int() rejects
isdigit(s) == s # << >> /\ \A i \in 1..Len(s) : IsDigit(s[i]) \/ s[i] = "²"

RemoveAt(q, i) == SubSeq(q, 1, i - 1) \o SubSeq(q, i + 1, Len(q))

\* df.drop(df.index[idx], inplace=True)
DropRow(t, idx) == [cols |-> t.cols, rows |-> RemoveAt(t.rows, idx + 1)]

\* the default cell of a column added with the type chosen
ColumnDefault(type) ==
    CASE type = "string" -> Txt(<< >>)
      [] type = "integer" -> Num(0)
      [] type = "float" -> Num(0)
      [] OTHER -> NaT

\* df[new_col_name] = default
AddCol(t, name, type) ==
    [cols |-> t.cols \cup {name},
     rows |-> [i \in 1..Len(t.rows) |->
                 [c \in t.cols \cup {name} |->
                     IF c = name THEN ColumnDefault(type) ELSE t.rows[i][c]]]]

\* df.drop(columns=[col_to_delete], inplace=True)
DropCol(t, name) ==
    [cols |-> t.cols \ {name},
     rows |-> [i \in 1..Len(t.rows) |-> [c \in t.cols \ {name} |-> t.rows[i][c]]]]

\* try: df.to_excel(DATA_FILE, index=False) / except: report; ok is whether
\* the write goes through
WriteFile(f, t, ok) == IF ok THEN [exists |-> TRUE, sheet |-> to_excel(t)] ELSE f

SaveError == Msg("sidebar", "error", "Error saving data")

\* the "Delete Row" handler
DeleteRowHandler(df, f, ev) ==
    IF isdigit(ev.delete_index)
    THEN IF \E i \in 1..Len(ev.delete_index) : ~IsDigit(ev.delete_index[i])
         THEN [df |-> df, file |-> f, msgs |-> << >>, raised |-> TRUE]
         ELSE LET idx == ParseNat(ev.delete_index)
              IN IF 0 <= idx /\ idx < Len(df.rows)
                 THEN [df |-> DropRow(df, idx),
                       file |-> WriteFile(f, DropRow(df, idx), ev.write_ok),
                       msgs |-> IF ev.write_ok
                                THEN << Msg("sidebar", "success", "Row deleted and saved.") >>
                                ELSE << SaveError >>,
                       raised |-> FALSE]
                 ELSE [df |-> df, file |-> f,
                       msgs |-> << Msg("sidebar", "error", "Invalid index.") >>,
                       raised |-> FALSE]
    ELSE [df |-> df, file |-> f,
          msgs |-> << Msg("sidebar", "error", "Please enter a valid integer index.") >>,
          raised |-> FALSE]

\* the "Add Column" handler
AddColumnHandler(df, f, ev) ==
    IF ev.new_col_name # "" /\ ev.new_col_name \notin df.cols
    THEN [df |-> AddCol(df, ev.new_col_name, ev.new_col_type),
          file |-> WriteFile(f, AddCol(df, ev.new_col_name, ev.new_col_type), ev.write_ok),
          msgs |-> IF ev.write_ok
                   THEN << Msg("sidebar", "success", "Column added and saved.") >>
                   ELSE << SaveError >>,
          raised |-> FALSE]
    ELSE IF ev.new_col_name \in df.cols
    THEN [df |-> df, file |-> f,
          msgs |-> << Msg("sidebar", "warning", "Column already exists or invalid name.") >>,
          raised |-> FALSE]
    ELSE [df |-> df, file |-> f,
          msgs |-> << Msg("sidebar", "warning", "Please enter a valid column name.") >>,
          raised |-> FALSE]

\* the "Delete Column" handler; the select box offers "" and df's columns
DeleteColumnHandler(df, f, ev) ==
    LET col_to_delete == IF ev.col_to_delete \in df.cols THEN ev.col_to_delete ELSE ""
    IN IF col_to_delete # "" /\ col_to_delete \in df.cols
       THEN [df |-> DropCol(df, col_to_delete),
             file |-> WriteFile(f, DropCol(df, col_to_delete), ev.write_ok),
             msgs |-> IF ev.write_ok
                      THEN << Msg("sidebar", "success", "Column deleted and saved.") >>
                      ELSE << SaveError >>,
             raised |-> FALSE]
       ELSE [df |-> df, file |-> f,
             msgs |-> << Msg("sidebar", "warning", "Please select a valid column.") >>,
             raised |-> FALSE]

\* section 2, the Row & Column Management expander. Every handler ends at a
\* message; a rerun asked for while the handler ran ends the run at that call
\* (stopped), the message not shown
Management(df, f, ev) ==
    The({ [df |-> h.df, file |-> h.file, raised |-> h.raised,
           msgs |-> IF ev.interrupted THEN << >> ELSE h.msgs,
           stopped |-> ev.interrupted /\ h.msgs # << >>] :
          h \in {CASE ev.button = "Delete Row" -> DeleteRowHandler(df, f, ev)
                   [] ev.button = "Add Column" -> AddColumnHandler(df, f, ev)
                   [] ev.button = "Delete Column" -> DeleteColumnHandler(df, f, ev)
                   [] OTHER -> [df |-> df, file |-> f, msgs |-> << >>,
                                raised |-> FALSE]} })

\* the "Save Updates" handler: [file, cache, msgs, stopped]. The file is
\* written, then st.success reports it, then the cache is cleared; when the
\* write fails st.error reports it. A rerun asked for while the file was
\* written ends the run at st.success or st.error (stopped): nothing is
\* reported and the cache entry is left as it was
SaveUpdates(edited, f, c, ev) ==
    IF ev.button # "Save Updates"
    THEN [file |-> f, cache |-> c, msgs |-> << >>, stopped |-> FALSE]
    ELSE IF ev.interrupted
    THEN [file |-> IF ev.write_ok THEN [exists |-> TRUE, sheet |-> to_excel(edited)]
                   ELSE f,
          cache |-> c, msgs |-> << >>, stopped |-> TRUE]
    ELSE IF ev.write_ok
    THEN [file |-> [exists |-> TRUE, sheet |-> to_excel(edited)],
          cache |-> [valid |-> FALSE, df |-> EmptyTable],
          msgs |-> << Msg("main", "success", "Data successfully saved!") >>,
          stopped |-> FALSE]
    ELSE [file |-> f, cache |-> c,
          msgs |-> << Msg("main", "error", "Error saving data") >>,
          stopped |-> FALSE]

\* ------------------------------------------------------ image store ----
S3_BUCKET == "bucket"
S3_REGION == "us-east-1"

\* unique_filename = f"{task}_{uuid4().hex}_{image.name}"
UniqueFilename(task, token, name) == AsStr(task) \o << "_" >> \o token \o << "_" >> \o name

\* the URL upload_image_to_s3 returns for a key
ImageUrl(key) == << "https://", S3_BUCKET, ".s3.", S3_REGION, ".amazonaws.com/" >> \o key

\* upload_image_to_s3(file, filename): the URL, or << >> (None) with an error
\* reported when the upload raises
upload_image_to_s3(file, filename) == IF file.ok THEN ImageUrl(filename) ELSE << >>

\* one pass of the loop of the "Upload Images" handler, over the first of the
\* files still pending: the upload, then the INSERT and its commit when the
\* upload gave a URL; uu counts the uuid4 tokens drawn so far
UploadNext(imgs, task, pending, uu) ==
    LET image == Head(pending)
        image_url == upload_image_to_s3(image,
                         UniqueFilename(task, Digits(uu), image.name))
    IN IF image_url # << >>
       THEN [images |-> Append(imgs, [task_identifier |-> task, image_url |-> image_url]),
             msgs |-> << Msg("main", "success", "Uploaded") >>,
             pending |-> Tail(pending), uuid |-> uu + 1]
       ELSE [images |-> imgs,
             msgs |-> << Msg("main", "error", "Error uploading file") >>,
             pending |-> Tail(pending), uuid |-> uu + 1]

\* a value as "if x:" reads it: None, an empty text and the number 0 are
\* false; any other value, NaN included, is true
Truthy(v) ==
    CASE v.k = "none" -> FALSE
      [] v.k = "text" -> v.s # << >>
      [] v.k = "num" -> v.n # 0
      [] OTHER -> TRUE

\* the "Upload Images" handler up to its loop: whether the loop starts
UploadHandler(task, ev) ==
    IF ev.button # "Upload Images" THEN [start |-> FALSE, msgs |-> << >>]
    ELSE IF ev.batch # << >> /\ Truthy(task)
    THEN [start |-> TRUE, msgs |-> << >>]
    ELSE [start |-> FALSE,
          msgs |-> << Msg("main", "error",
                          "Please select a task and upload at least one image.") >>]

\* a query without the WHERE clause: the URLs of all the records
GalleryOfAll(imgs, task) == [i \in 1..Len(imgs) |-> imgs[i].image_url]

\* SELECT image_url FROM images WHERE task_identifier = ?
Gallery(imgs, task) ==
    LET idx == SelectIdx([i \in 1..Len(imgs) |-> i],
                         [i \in 1..Len(imgs) |-> imgs[i].task_identifier = task])
    IN [i \in 1..Len(idx) |-> imgs[idx[i]].image_url]

\* df["Task"].unique(): the distinct tasks in order of first appearance
TaskOptions(t) ==
    LET first == SelectIdx([i \in 1..Len(t.rows) |-> i],
                           [i \in 1..Len(t.rows) |->
                               \A j \in 1..(i - 1) : t.rows[j]["Task"] # t.rows[i]["Task"]])
    IN [i \in 1..Len(first) |-> t.rows[first[i]]["Task"]]

\* st.selectbox(..., df["Task"].unique()): the value chosen if it is offered,
\* else the first option, else None
SelectedTask(t, chosen) ==
    LET opts == TaskOptions(t)
    IN IF \E i \in 1..Len(opts) : opts[i] = chosen THEN chosen
       ELSE IF opts # << >> THEN opts[1] ELSE None

\* ---------------------------------------------------- one script run ----
VARIABLES
    file,      \* the backing spreadsheet: [exists, sheet]
    cache,     \* the st.cache_data entry of load_data: [valid, df]
    session,   \* st.session_state: the filter widgets' values
    added,     \* the rows appended in the data editor and not yet dropped
    edits,     \* the cells changed and the rows removed in the data editor
    images,    \* the rows of the images table, in insertion order
    uuid,      \* the number of uuid4 tokens drawn
    run,       \* what the last script run computed and reported
    ops        \* the number of management clicks, editor rows and saves so far

vars == << file, cache, session, added, edits, images, uuid, run, ops >>

NoSelection == [d \in DimSet |-> {}]

\* the session of a first run, and of a run after one that stopped before the
\* filter widgets: their keys are absent
InitSession ==
    [sel |-> NoSelection, date_range |-> << >>, has_range |-> FALSE,
     show_finished |-> TRUE, group_by |-> {}]

NecessaryCols == {"Start Date", "End Date", "Status", "Order Status", "Progress"}
OverdueCols == {"Activity", "Room", "Task", "Status", "Order Status", "End Date"}
UpcomingCols == {"Activity", "Room", "Task", "Start Date", "Status", "Order Status"}

\* [min Start Date, max End Date] of the edited table, today for a missing column
DefaultRange(t) ==
    << IF "Start Date" \in t.cols THEN DateMin(ColValues(t, "Start Date")) ELSE Date(Today),
       IF "End Date" \in t.cols THEN DateMax(ColValues(t, "End Date")) ELSE Date(Today) >>

\* section 3: the session defaults of a first run, then "Clear Filters"
SessionAfter(sess, edited, ev) ==
    LET s1 == IF sess.has_range THEN sess
              ELSE [sess EXCEPT !.has_range = TRUE, !.date_range = DefaultRange(edited)]
    IN IF ev.button = "Clear Filters"
       THEN [s1 EXCEPT !.sel = NoSelection, !.date_range = DefaultRange(edited)]
       ELSE s1

\* overdue_df and upcoming_df of section 6, as row positions of df_filtered
Overdue(t) ==
    {i \in 1..Len(t.rows) :
        /\ DateLT(t.rows[i]["End Date"], Date(Today))
        /\ Lower(Strip(t.rows[i]["Status"].s)) # finished}
Upcoming(t) ==
    {i \in 1..Len(t.rows) :
        /\ DateGE(t.rows[i]["Start Date"], Date(Today))
        /\ DateLE(t.rows[i]["Start Date"], Date(Today + 7))}

\* load_data through st.cache_data: a valid entry is returned as a copy, else
\* the sheet is read and the result stored; a missing file stops the run
LoadResult(f, c) ==
    IF c.valid THEN [stop |-> FALSE, df |-> c.df, cache |-> c]
    ELSE IF ~f.exists THEN [stop |-> TRUE, df |-> EmptyTable, cache |-> c]
    ELSE [stop |-> FALSE, df |-> load_data(f.sheet),
          cache |-> [valid |-> TRUE, df |-> load_data(f.sheet)]]

\* the event of a run: the button clicked, if any, and the widget inputs the
\* handlers read; write_ok is whether a write to the backing file goes through
NoEvent ==
    [button |-> "none", delete_index |-> << >>, new_col_name |-> "",
     new_col_type |-> "string", col_to_delete |-> "", write_ok |-> TRUE,
     interrupted |-> FALSE,
     add_row |-> << >>, edit_cell |-> {}, delete_rows |-> {}, task |-> None,
     batch |-> << >>]

NoRun ==
    [event |-> NoEvent, outcome |-> "none", loaded |-> EmptyTable, df |-> EmptyTable,
     edited_df |-> EmptyTable, df_filtered |-> EmptyFiltered,
     gantt_segments |-> << >>, msgs |-> << >>, task |-> None, gallery |-> << >>,
     uploads |-> << >>, pending |-> << >>, selected_date_range |-> << >>, group_by |-> {},
     filters_drawn |-> FALSE, editor_drawn |-> FALSE, shown |-> EmptyTable,
    add_column_drawn |-> FALSE, delete_column_drawn |-> FALSE,
     completion |-> [num |-> 0, den |-> 0]]

\* what persists after a run, joined with what the run reports
Outcome(f, c, sess, add, imgs, uu, r) ==
    [file |-> f, cache |-> c, session |-> sess, added |-> add[1], edits |-> add[2],
     images |-> imgs, uuid |-> uu, run |-> r]

\* edited_df["Status"].str.strip().str.lower() of one cell; a cell that is no
\* text gives NaN
StatusKey(v) == IF v.k = "text" THEN Txt(Lower(Strip(v.s))) ELSE NaN

\* finished_tasks: the rows whose status key equals "finished"
finished_tasks(t) ==
    Cardinality({i \in 1..Len(t.rows) : StatusKey(t.rows[i]["Status"]) = Txt(finished)})

\* the count of the literal text "Finished"
finished_literal(t) ==
    Cardinality({i \in 1..Len(t.rows) : t.rows[i]["Status"] = Txt(Finished)})

\* total_tasks = edited_df.shape[0]
total_tasks(t) == Len(t.rows)

\* the percentage counted over the literal status
completion_literal(t) ==
    IF total_tasks(t) > 0
    THEN [num |-> finished_literal(t) * 100, den |-> total_tasks(t)]
    ELSE [num |-> 0, den |-> 1]

\* completion_percentage = (finished_tasks / total_tasks) * 100 if total_tasks > 0
\* else 0, as the fraction num / den
completion_percentage(t) ==
    IF total_tasks(t) > 0
    THEN [num |-> finished_tasks(t) * 100, den |-> total_tasks(t)]
    ELSE [num |-> 0, den |-> 1]

\* sections 6 to 8: the run from the chart on, up to the gallery, or up to the
\* loop of the upload handler when the loop starts: the run is then "uploading"
\* and goes on file by file
AfterGantt(sv, sess1, added1, imgs, uu, mgdf, upto_save, filtered, segs, ev) ==
    IF \/ Overdue(filtered) # {} /\ ~(OverdueCols \subseteq filtered.cols)
       \/ Upcoming(filtered) # {} /\ ~(UpcomingCols \subseteq filtered.cols)
       \/ "Task" \notin mgdf.cols
    THEN Outcome(sv.file, sv.cache, sess1, added1, imgs, uu,
                 [upto_save EXCEPT !.outcome = "exception", !.df_filtered = filtered])
    ELSE The({Outcome(sv.file, sv.cache, sess1, added1, imgs, uu,
                 [upto_save EXCEPT
                      !.outcome = IF up.start THEN "uploading" ELSE "completed",
                      !.df_filtered = filtered,
                      !.gantt_segments = segs,
                      !.completion = completion_percentage(upto_save.edited_df),
                      !.msgs = @ \o up.msgs,
                      !.task = task,
                      !.uploads = IF up.start THEN ev.batch ELSE << >>,
                      !.pending = IF up.start THEN ev.batch ELSE << >>,
                      !.gallery = IF up.start THEN << >> ELSE Gallery(imgs, task)]) :
              <<task, up>> \in
                 {<<tk, UploadHandler(tk, ev)>> :
                     tk \in {SelectedTask(mgdf, ev.task)}}})

\* section 5: the run from the filtered table on
AfterFilter(sv, sess1, added1, imgs, uu, mgdf, upto_save, filtered, ev) ==
    IF filtered.rows # << >> /\ "Activity" \notin filtered.cols
    THEN Outcome(sv.file, sv.cache, sess1, added1, imgs, uu,
                 [upto_save EXCEPT !.outcome = "exception", !.df_filtered = filtered])
    ELSE The({AfterGantt(sv, sess1, added1, imgs, uu, mgdf, upto_save, filtered,
                         segs, ev) :
              segs \in {GanttSegments(filtered, sess1.group_by)}})

\* the editor's state <<rows appended, changes>> after the user's input of
\* this event: a row appended, a cell changed (the last value typed into a cell
\* replaces the one before) or a row removed
EditorAfter(add, ev) ==
    << add[1] \o ev.add_row,
       [edited_rows |->
            {e \in add[2].edited_rows :
                \A n \in ev.edit_cell : ~(n[1] = e[1] /\ n[2] = e[2])}
            \cup ev.edit_cell,
        deleted_rows |-> add[2].deleted_rows \cup ev.delete_rows] >>

\* sections 2 (the editor) to 4: the run from the editor on
AfterManagement(ld, mg, sess, add, imgs, uu, prev, base, ev) ==
    The({ The({ IF sv.stopped
                THEN Outcome(sv.file, sv.cache, sess, added1, imgs, uu,
                        [base EXCEPT !.edited_df = edited, !.msgs = mg.msgs,
                                     !.outcome = "interrupted"])
                ELSE IF Len(sess1.date_range) # 2
                THEN Outcome(sv.file, sv.cache, sess1, added1, imgs, uu,
                        [upto_save EXCEPT !.outcome = "exception"])
                ELSE IF ~(NecessaryCols \subseteq edited.cols)
                THEN Outcome(sv.file, sv.cache, sess1, added1, imgs, uu,
                        [upto_save EXCEPT !.outcome = "MissingColumns",
                             !.msgs = @ \o << Msg("main", "warning",
                                          "Your data is missing some necessary columns") >>])
                ELSE IF \E d \in DimSet : sess1.sel[d] # {} /\ d \notin edited.cols
                THEN Outcome(sv.file, sv.cache, sess1, added1, imgs, uu,
                             [upto_save EXCEPT !.outcome = "exception"])
                ELSE The({AfterFilter(sv, sess1, added1, imgs, uu, mg.df, upto_save,
                                      filtered, ev) :
                          filtered \in {Filter(edited, sess1.sel, sess1.show_finished,
                                               sess1.date_range)}}) :
                <<sv, sess1, upto_save>> \in
                   { <<s, ss, [base EXCEPT !.edited_df = edited, !.msgs = mg.msgs \o s.msgs,
                                           !.filters_drawn = TRUE,
                                           !.selected_date_range =
                                              IF Len(ss.date_range) = 2
                                              THEN ss.date_range ELSE << >>]>> :
                       s \in {SaveUpdates(edited, mg.file, ld.cache, ev)},
                       ss \in {SessionAfter(sess, edited, ev)} } }) :
          <<added1, edited>> \in
             { <<a, PostEditor(data_editor(mg.df, a[1], a[2]))>> :
                 a \in {IF mg.df = prev.shown THEN EditorAfter(add, ev)
                        ELSE << << >>, NoEdits >>} } })

\* The script from top to bottom for one event ev, from the persistent state
\* (f, c, sess, add, imgs, uu), add being the editor's state, and the run prev
\* before it: prev.shown is the table the editor last showed. A run that
\* st.stop() ends drops the state of the widgets it did not draw; a run that an
\* exception or a rerun request ends keeps it. While a run that a rerun
\* request ended gives way to the next, the page of the run before it is
\* still on screen. A run that raised in the "Delete Row" handler drew nothing
\* below it: the widgets of "Add Column" and "Delete Column" are not on its
\* page.
Script(f, c, sess, add, imgs, uu, prev, ev) ==
    The({ IF ld.stop
          THEN Outcome(f, ld.cache, InitSession, << << >>, NoEdits >>, imgs, uu,
                       [NoRun EXCEPT !.event = ev, !.outcome = "MissingFile",
                            !.msgs = << Msg("main", "error", "File not found!") >>])
          ELSE The({ IF mg.raised
                     THEN Outcome(mg.file, ld.cache, sess, add, imgs, uu,
                                  [NoRun EXCEPT !.event = ev, !.loaded = ld.df,
                                       !.df = mg.df, !.shown = prev.shown,
                                       !.outcome = "exception"])
                     ELSE IF mg.stopped
                     THEN Outcome(mg.file, ld.cache, sess, add, imgs, uu,
                                  [NoRun EXCEPT !.event = ev, !.loaded = ld.df,
                                       !.df = mg.df, !.shown = prev.shown,
                                       !.editor_drawn = prev.editor_drawn,
                                       !.add_column_drawn =
                                           \/ prev.add_column_drawn
                                           \/ ev.button \in {"Add Column",
                                                             "Delete Column"},
                                       !.delete_column_drawn =
                                           \/ prev.delete_column_drawn
                                           \/ ev.button = "Delete Column",
                                       !.outcome = "interrupted"])
                     ELSE AfterManagement(ld, mg, sess, add, imgs, uu, prev,
                              [NoRun EXCEPT !.event = ev, !.loaded = ld.df,
                                   !.df = mg.df, !.shown = mg.df,
                                   !.editor_drawn = TRUE,
                                   !.add_column_drawn = TRUE,
                                   !.delete_column_drawn = TRUE,
                                   !.group_by = sess.group_by],
                              ev) :
                     mg \in {Management(ld.df, f, ev)} }) :
          ld \in {LoadResult(f, c)} })

\* ------------------------------------------------------------ inputs ----
SheetRow(activity, item, task, room, status, order, start, end, progress) ==
    [c \in SheetCols |->
        CASE c = "Activity" -> activity
          [] c = "Item" -> item
          [] c = "Task" -> task
          [] c = "Room" -> room
          [] c = "Status" -> status
          [] c = "Order Status" -> order
          [] c = "Start Date" -> start
          [] c = "End Date" -> end
          [] OTHER -> progress]

\* the rows a sheet is drawn from
RowPool ==
    << SheetRow(Txt(<< "A" >>), Txt(<< "I" >>), Txt(<< "T" >>), Txt(<< "R" >>),
                Txt(InProgress), Txt(Ordered), Date(2), Date(5), Num(0 - 5)),
       SheetRow(Txt(<< "A" >>), Txt(<< "I" >>), Txt(<< "T" >>), Txt(<< "R" >>),
                Txt(Finished), Txt(Ordered), Date(1), Date(2), Num(100)),
       SheetRow(Txt(<< "A" >>), Txt(<< "I" >>), Txt(<< "U" >>), Txt(<< "R" >>),
                Txt(NotStarted), Txt(Ordered), Date(1), Date(2), NaN),
       SheetRow(Txt(<< " ", "a" >>), Txt(<< "I" >>), Txt(<< "U" >>), NaN,
                Txt(InProgress), NaN, Date(2), Date(4), Txt(<< "5", "0" >>)),
       SheetRow(NaN, Txt(<< "I" >>), Txt(<< "T" >>), Txt(<< "R" >>),
                Txt(InProgress), Txt(Ordered), Date(4), Date(4), Num(50)),
       SheetRow(Txt(<< "B" >>), Txt(<< "I" >>), Txt(<< "U" >>), NaN,
                Txt(Delivered), Txt(NotOrdered), Txt(<< "t", "b", "d" >>), Date(5),
                Txt(<< "a", "b", "c" >>)),
       SheetRow(Txt(<< "B" >>), NaN, Txt(<< "T" >>), Txt(<< "R" >>),
                Txt(<< " " >> \o finished \o << " " >>), Txt(NotOrdered),
                Date(4), Date(4), Num(150)) >>

\* the runs of k consecutive rows of a pool
Windows(pool, k) == {SubSeq(pool, a, a + k - 1) : a \in 1..(Len(pool) - k + 1)}

\* the sheets the views start from: no row, or MaxRows consecutive rows
Sheets ==
    {[cols |-> SheetCols, rows |-> w] : w \in {<< >>} \cup Windows(RowPool, MaxRows)}

\* the sheets the row/column store starts from: at most MaxRows consecutive
\* rows of the head of the pool
StoreRows == SubSeq(RowPool, 1, 3)
StoreSheets ==
    {[cols |-> SheetCols, rows |-> w] :
        w \in UNION {Windows(StoreRows, k) : k \in 0..MaxRows}}

\* the rows a user types into the editor: the cells filled in
ViewRows ==
    { ("Status" :> Txt(InProgress)) @@ ("Progress" :> Num(50))
         @@ ("Start Date" :> Date(2)) @@ ("End Date" :> Date(4)) }
EditorRows == ViewRows \cup { ("Status" :> None) }

\* the cells a user changes in the editor: a status of the select box, a
\* progress within the bounds of the number column
CellInputs == { << "Status", Txt(Finished) >>, << "Progress", Num(100) >> }

DeleteIndexInputs ==
    { << >>, << "0" >>, << "1" >>, << "7" >>, << "-", "1" >>, << "x" >>, << "²" >> }
NewColumnNames == {"", "Notes", "Status"}
DeletableColumns == {"", "Activity", "Task", "Status", "Notes"}
ColumnTypes == {"string", "integer", "float", "datetime"}
RangeDays == {2, 4}
TaskChoices == {Txt(<< "T" >>), Txt(<< "U" >>)}
\* the files a user attaches: ok is whether the upload of the file goes through
Files == { [name |-> << "p" >>, ok |-> TRUE], [name |-> << "q" >>, ok |-> FALSE] }
Batches ==
    {<< >>} \cup UNION {[1..n -> Files] : n \in 1..MaxBatch}

\* ----------------------------------------------------- specification ----
Init ==
    /\ file \in {[exists |-> FALSE, sheet |-> EmptyTable]}
                \cup {[exists |-> TRUE, sheet |-> DropCol(sh, c)] :
                        sh \in StoreSheets, c \in {"", "Order Status", "Progress"}}
    /\ cache = [valid |-> FALSE, df |-> EmptyTable]
    /\ session = InitSession
    /\ added = << >>
    /\ edits = NoEdits
    /\ images = << >>
    /\ uuid = 0
    /\ run = NoRun
    /\ ops = 0

\* one script run for the event ev, the widgets holding sess
Step(sess, ev) ==
    \E r \in {Script(file, cache, sess, << added, edits >>, images, uuid, run, ev)} :
       /\ file' = r.file
       /\ cache' = r.cache
       /\ session' = r.session
       /\ added' = r.added
       /\ edits' = r.edits
       /\ images' = r.images
       /\ uuid' = r.uuid
       /\ run' = r.run

\* which widgets are on screen after the last run: the expander with the
\* "Delete Row" widgets after every run that loaded the table, the widgets of
\* "Add Column" and "Delete Column", the editor and the filters after a run
\* that got to them; the upload section is not to be used while a file of the
\* batch is under way
ManagementShown ==
    run.outcome \in {"completed", "MissingColumns", "exception", "interrupted",
                     "uploading"}
EditorShown == run.editor_drawn
FiltersShown == run.filters_drawn
PageShown ==
    \/ run.outcome = "completed"
    \/ run.outcome = "uploading" /\ run.pending = << >>
    \/ run.outcome = "interrupted" /\ run.filters_drawn

\* a run without a button: the first one, or a reload of the page
Rerun ==
    /\ run.outcome = "uploading" => run.pending = << >>
    /\ Step(session, NoEvent)
    /\ UNCHANGED ops

\* one more change to the table, of at most MaxOps
Change == ops < MaxOps /\ ops' = ops + 1

\* a click on a management button: the write that follows can fail only when
\* the handler gets to it; stop is whether the user's next interaction arrives
\* while the handler runs
DeleteRow ==
    /\ Change
    /\ \E i \in DeleteIndexInputs, ok \in BOOLEAN, stop \in BOOLEAN :
        /\ ManagementShown
        /\ ok \/ i \in {<< "0" >>, << "1" >>}
        /\ Step(session, [NoEvent EXCEPT !.button = "Delete Row",
                                         !.delete_index = i, !.write_ok = ok,
                                         !.interrupted = stop])

AddColumn ==
    /\ Change
    /\ \E n \in NewColumnNames, ty \in ColumnTypes, ok \in BOOLEAN, stop \in BOOLEAN :
        /\ ManagementShown
        /\ run.add_column_drawn
        /\ n # "" \/ (ok /\ ty = "string")
        /\ Step(session, [NoEvent EXCEPT !.button = "Add Column", !.new_col_name = n,
                                         !.new_col_type = ty, !.write_ok = ok,
                                         !.interrupted = stop])

DeleteColumn ==
    /\ Change
    /\ \E c \in DeletableColumns, ok \in BOOLEAN, stop \in BOOLEAN :
        /\ ManagementShown
        /\ run.delete_column_drawn
        /\ ok \/ c # ""
        /\ Step(session, [NoEvent EXCEPT !.button = "Delete Column",
                                         !.col_to_delete = c, !.write_ok = ok,
                                         !.interrupted = stop])

\* the user appends a row in the data editor
AppendRow(r) ==
    /\ Change
    /\ EditorShown
    /\ Len(added) < MaxAdded
    /\ Len(run.shown.rows) < MaxRows + MaxAdded
    /\ Step(session, [NoEvent EXCEPT !.add_row = << r >>])

EditRow == \E r \in EditorRows : AppendRow(r)

\* the user changes a cell of a row of the table shown
EditCell ==
    /\ Change
    /\ \E i \in 1..Len(run.shown.rows), e \in CellInputs :
        /\ EditorShown
        /\ e[1] \in run.shown.cols
        /\ i \notin edits.deleted_rows
        /\ Step(session, [NoEvent EXCEPT !.edit_cell = {<< i, e[1], e[2] >>}])

\* the user removes a row of the table shown
RemoveRow ==
    /\ Change
    /\ \E i \in 1..Len(run.shown.rows) :
        /\ EditorShown
        /\ i \notin edits.deleted_rows
        /\ Step(session, [NoEvent EXCEPT !.delete_rows = {i}])

\* the same in the views, with a row of a task under way
AddTaskRow == \E r \in ViewRows : AppendRow(r)

\* a click on "Save Updates"; stop is whether the user's next interaction
\* arrives while the file is written
SaveUpdatesClick ==
    /\ Change
    /\ \E ok \in BOOLEAN, stop \in BOOLEAN :
        /\ EditorShown
        /\ Step(session, [NoEvent EXCEPT !.button = "Save Updates", !.write_ok = ok,
                                         !.interrupted = stop])

Next ==
    \/ Rerun
    \/ DeleteRow
    \/ AddColumn
    \/ DeleteColumn
    \/ EditRow
    \/ EditCell
    \/ RemoveRow
    \/ SaveUpdatesClick

Spec == Init /\ [][Next]_vars

\* ------------------------------------------------------- filter view ----
InitView ==
    /\ file \in {[exists |-> TRUE, sheet |-> sh] : sh \in Sheets}
    /\ cache = [valid |-> FALSE, df |-> EmptyTable]
    /\ session = InitSession
    /\ added = << >>
    /\ edits = NoEdits
    /\ images = << >>
    /\ uuid = 0
    /\ run = NoRun
    /\ ops = 0

ActiveDims(sel) == {d \in DimSet : sel[d] # {}}

\* the user picks or unpicks one of the options a multiselect offers
SetFilter ==
    \E d \in DimSet :
    \E v \in norm_unique(run.edited_df, d) :
    \E S \in {IF v \in session.sel[d] THEN session.sel[d] \ {v}
                                     ELSE session.sel[d] \cup {v}} :
        /\ FiltersShown
        /\ Cardinality(ActiveDims([session.sel EXCEPT ![d] = S])) <= MaxActive
        /\ Step([session EXCEPT !.sel[d] = S], NoEvent)
        /\ UNCHANGED ops

ToggleShowFinished ==
    /\ FiltersShown
    /\ Step([session EXCEPT !.show_finished = ~@], NoEvent)
    /\ UNCHANGED ops

\* the date picker: a click on the first date of a new range leaves that date
\* alone in st.session_state["date_range"], and the run it starts is the next
\* one to read it
DateRanges == {<< Date(d) >> : d \in RangeDays}

SetDateRange ==
    \E r \in DateRanges :
        /\ run.selected_date_range # << >>
        /\ Step([session EXCEPT !.date_range = r], NoEvent)
        /\ UNCHANGED ops

ClearFilters ==
    /\ FiltersShown
    /\ Step(session, [NoEvent EXCEPT !.button = "Clear Filters"])
    /\ UNCHANGED ops

NextFilter ==
    \/ Rerun
    \/ AddTaskRow
    \/ SetFilter
    \/ ToggleShowFinished
    \/ SetDateRange
    \/ ClearFilters

SpecFilter == InitView /\ [][NextFilter]_vars

\* -------------------------------------------------------- gantt view ----
ToggleGroupBy ==
    \E g \in {"Room", "Item", "Task"} :
        /\ FiltersShown
        /\ Step([session EXCEPT !.group_by =
                    IF g \in @ THEN @ \ {g} ELSE @ \cup {g}], NoEvent)
        /\ UNCHANGED ops

NextGantt ==
    \/ Rerun
    \/ AddTaskRow
    \/ EditCell
    \/ ToggleGroupBy
    \/ ToggleShowFinished

SpecGantt == InitView /\ [][NextGantt]_vars

\* ------------------------------------------------------- image panel ----
InitUpload ==
    /\ file \in {[exists |-> TRUE, sheet |-> [cols |-> SheetCols, rows |-> w]] :
                    w \in {<< >>} \cup Windows(StoreRows, MaxRows)}
    /\ cache = [valid |-> FALSE, df |-> EmptyTable]
    /\ session = InitSession
    /\ added = << >>
    /\ edits = NoEdits
    /\ images = << >>
    /\ uuid = 0
    /\ run = NoRun
    /\ ops = 0

\* the user picks a task, attaches a batch of files and clicks "Upload Images";
\* like any other interaction, the click ends a run that is still uploading
UploadImages ==
    \E t \in TaskChoices, b \in Batches :
        /\ PageShown
        /\ uuid + Len(b) <= MaxImages
        /\ Step(session, [NoEvent EXCEPT !.button = "Upload Images",
                                         !.task = t, !.batch = b])
        /\ UNCHANGED ops

\* the user picks a task in the select box: the gallery of that task is drawn
SelectTask ==
    \E t \in TaskChoices :
        /\ PageShown
        /\ Step(session, [NoEvent EXCEPT !.task = t])
        /\ UNCHANGED ops

\* the run that is uploading handles the next file of its batch; stop is
\* whether the user's next interaction arrives meanwhile: the run then ends at
\* the st.success or st.error of the pass, its record committed, nothing
\* reported and the files after it left alone
UploadFile ==
    /\ run.outcome = "uploading"
    /\ run.pending # << >>
    /\ \E up \in {UploadNext(images, run.task, run.pending, uuid)}, stop \in BOOLEAN :
        /\ images' = up.images
        /\ uuid' = up.uuid
        /\ run' = IF stop
                  THEN [run EXCEPT !.pending = up.pending, !.outcome = "interrupted"]
                  ELSE [run EXCEPT !.pending = up.pending, !.msgs = @ \o up.msgs]
    /\ UNCHANGED << file, cache, session, added, edits, ops >>

\* past the loop the run queries the images of the selected task and draws
\* the gallery
FinishUpload ==
    /\ run.outcome = "uploading"
    /\ run.pending = << >>
    /\ run' = [run EXCEPT !.outcome = "completed",
                          !.gallery = Gallery(images, run.task)]
    /\ UNCHANGED << file, cache, session, added, edits, images, uuid, ops >>

\* another session of the dashboard uploads a file and records it in the
\* shared table
OtherSessionUpload ==
    \E t \in TaskChoices, f \in {[name |-> << "o" >>, ok |-> TRUE]} :
        /\ uuid < MaxImages
        /\ \E up \in {UploadNext(images, t, << f >>, uuid)} :
            /\ images' = up.images
            /\ uuid' = up.uuid
        /\ UNCHANGED << file, cache, session, added, edits, run, ops >>

NextUpload ==
    \/ Rerun
    \/ UploadImages
    \/ SelectTask
    \/ UploadFile
    \/ FinishUpload
    \/ OtherSessionUpload

SpecUpload == InitUpload /\ [][NextUpload]_vars

\* ------------------------------------------------------------ claims ----
Rows(t) == {t.rows[i] : i \in 1..Len(t.rows)}
Reported(r, m) == \E i \in 1..Len(r.msgs) : r.msgs[i] = m
ReportedAt(r, where) == \E i \in 1..Len(r.msgs) : r.msgs[i].where = where
EditorReached(r) == r.outcome \in {"completed", "MissingColumns", "interrupted"}

ProgressInRange(t) ==
    \A i \in 1..Len(t.rows) :
        /\ t.rows[i]["Progress"].k = "num"
        /\ 0 <= t.rows[i]["Progress"].n
        /\ t.rows[i]["Progress"].n <= 100

\* C1: after load_data, and after the re-coercion of the editor's result, the
\* Progress of every row is a number in 0..100.
C1_ProgressInRange ==
    /\ run.outcome \notin {"none", "MissingFile"} => ProgressInRange(run.loaded)
    /\ EditorReached(run) /\ "Progress" \in run.edited_df.cols
          => ProgressInRange(run.edited_df)

\* C8: whatever rows and columns were added or deleted, a script run completes
\* or halts on the missing file or on the missing columns, unless the next
\* interaction takes its place; it never ends in an exception.
C8_NoUnhandledError ==
    run.outcome \in
        {"none", "completed", "MissingFile", "MissingColumns", "interrupted"}

\* the text of a cell lowercased and trimmed, as the filter contract words it
Normalized(v) == Lower(Strip(AsStr(v)))

\* the membership and the show-finished conditions of the filter contract
KeptBySelection(t, i, sel, show_finished) ==
    /\ \A d \in DimSet : sel[d] # {} => Normalized(t.rows[i][d]) \in sel[d]
    /\ ~show_finished => Normalized(t.rows[i]["Status"]) \notin {finished, delivered}

Positions(t) == [i \in 1..Len(t.rows) |-> i]

IsSelectionOf(f, t, keep(_)) ==
    /\ f.cols = t.cols
    /\ f.index = SelectSeq(Positions(t), keep)
    /\ f.rows = [k \in 1..Len(f.index) |-> t.rows[f.index[k]]]

\* C3: the filtered table of a run is exactly the rows of the edited table, in
\* table order, that are in every non-empty selection, are not finished or
\* delivered when "show finished" is off, and have Start Date >= range start
\* and End Date <= range end; no such row is dropped and no other row is kept.
C3_ExactlyTheConjunction ==
    run.outcome = "completed" =>
        IsSelectionOf(run.df_filtered, run.edited_df,
            LAMBDA i :
                /\ KeptBySelection(run.edited_df, i, session.sel, session.show_finished)
                /\ DateGE(run.edited_df.rows[i]["Start Date"], session.date_range[1])
                /\ DateLE(run.edited_df.rows[i]["End Date"], session.date_range[2]))

\* a run that filtered on a selection and on the range, kept a row, and dropped
\* a row that is in the selection and starts before the range
C3_Witness ==
    /\ run.outcome = "completed"
    /\ ActiveDims(session.sel) # {}
    /\ run.df_filtered.rows # << >>
    /\ \E i \in 1..Len(run.edited_df.rows) :
          /\ KeptBySelection(run.edited_df, i, session.sel, session.show_finished)
          /\ run.edited_df.rows[i]["Start Date"].k = "date"
          /\ run.edited_df.rows[i]["End Date"].k = "date"
          /\ \A k \in 1..Len(run.df_filtered.index) : run.df_filtered.index[k] # i

\* C4: with every offered value of one dimension selected, the filtered table
\* is the one that no selection in that dimension gives.
C4_SelectAllIsSelectNone ==
    run.outcome = "completed" =>
        \A d \in DimSet :
            session.sel[d] # {} /\ session.sel[d] = norm_unique(run.edited_df, d)
               => run.df_filtered.index =
                     FilterIdx(run.edited_df, [session.sel EXCEPT ![d] = {}],
                               session.show_finished, session.date_range)

\* ------------------------------------------------------ gantt claims ----
BarsOf(segs, key) == SelectSeq(segs, LAMBDA b : b.key = key)

\* the label of a group as its bars show it
LabelOfBar(b) ==
    IF b.DisplayStatus \in {CompletedPart, RemainingPart} THEN InProgressLabel
    ELSE b.DisplayStatus

\* the label the precedence rule gives to the rows I of a table
LabelByPrecedence(t, I) ==
    IF \/ \A i \in I : Normalized(t.rows[i]["Status"]) = finished
       \/ SumProgress(t, I) >= 100 * Cardinality(I)
    THEN FinishedLabel
    ELSE IF DateLT(DateMax({t.rows[i]["End Date"] : i \in I}), Date(Today))
    THEN DelayedLabel
    ELSE IF \E i \in I : Normalized(t.rows[i]["Status"]) = in_progress
    THEN InProgressLabel
    ELSE FallbackLabel

ChartCols == GroupCols(run.df_filtered, run.group_by)

\* C2: every group of the chart, a group of a missing value included, carries
\* the label the precedence rule gives to exactly the rows of that group.
C2_LabelOverGroupRows ==
    run.outcome = "completed" =>
        \A k \in 1..Len(run.gantt_segments) :
            LabelOfBar(run.gantt_segments[k]) =
                LabelByPrecedence(run.df_filtered,
                    GroupRows(run.df_filtered, ChartCols, run.gantt_segments[k].key))

SpanCovered(t, gcols, segs, key) ==
    \E bars \in {BarsOf(segs, key)}, I \in {GroupRows(t, gcols, key)} :
    \E start \in {AsTs(DateMin({t.rows[i]["Start Date"] : i \in I}))},
       end \in {AsTs(DateMax({t.rows[i]["End Date"] : i \in I}))} :
        IF /\ get_aggregated_status(t, SubsetRows(t, gcols, key), SumProgress(t, I),
                                    Cardinality(I), DateMax({t.rows[i]["End Date"] : i \in I}))
                = InProgressLabel
           /\ 0 < SumProgress(t, I)
           /\ SumProgress(t, I) < 100 * Cardinality(I)
        THEN /\ Len(bars) = 2
             /\ bars[1].DisplayStatus = CompletedPart
             /\ bars[2].DisplayStatus = RemainingPart
             /\ bars[1].Start = start
             /\ bars[2].End = end
             /\ bars[1].End = bars[2].Start
             /\ start.k = "ts" /\ end.k = "ts" =>
                   (bars[1].End.n - bars[1].Start.n) + (bars[2].End.n - bars[2].Start.n)
                      = end.n - start.n
        ELSE /\ Len(bars) = 1
             /\ bars[1].Start = start
             /\ bars[1].End = end

\* C5: the bars of every group cover the span of the group: a group labelled
\* In Progress with 0 < mean Progress < 100 has two bars, the first from the
\* start, the second to the end, meeting in one point, their durations adding
\* up to the span; every other group has one bar over the span.
C5_BarsCoverSpan ==
    run.outcome = "completed" =>
        /\ \A i \in 1..Len(run.df_filtered.rows) :
              SpanCovered(run.df_filtered, ChartCols, run.gantt_segments,
                          KeyOf(run.df_filtered.rows[i], ChartCols))
        /\ \A k \in 1..Len(run.gantt_segments) :
              GroupRows(run.df_filtered, ChartCols, run.gantt_segments[k].key) # {}

\* a chart with a split group of a span of no length and a split group of a
\* span of some length
C5_Witness ==
    /\ run.outcome = "completed"
    /\ \E k \in 1..Len(run.gantt_segments) :
          /\ run.gantt_segments[k].DisplayStatus = CompletedPart
          /\ run.gantt_segments[k].Start.k = "ts"
          /\ run.gantt_segments[k].Start = run.gantt_segments[k + 1].End
    /\ \E k \in 1..Len(run.gantt_segments) :
          /\ run.gantt_segments[k].DisplayStatus = CompletedPart
          /\ run.gantt_segments[k].End.k = "ts"
          /\ run.gantt_segments[k].Start.n < run.gantt_segments[k].End.n
          /\ run.gantt_segments[k].End.n < run.gantt_segments[k + 1].End.n

\* ------------------------------------------------------ image claims ----
IsPrefix(p, q) == Len(p) <= Len(q) /\ SubSeq(q, 1, Len(p)) = p
IsSuffix(p, q) == Len(p) <= Len(q) /\ SubSeq(q, Len(q) - Len(p) + 1, Len(q)) = p

\* https://{bucket}.s3.{region}.amazonaws.com/{key}, the key made of the task
\* identifier and the name of the file
IsUrlOf(url, task, name) ==
    /\ IsPrefix(<< "https://", S3_BUCKET, ".s3.", S3_REGION, ".amazonaws.com/" >>, url)
    /\ IsPrefix(AsStr(task) \o << "_" >>, SubSeq(url, 6, Len(url)))
    /\ IsSuffix(<< "_" >> \o name, url)

\* a pass of the run that is uploading over the next file of its batch
FileStep ==
    /\ run.outcome = "uploading"
    /\ run.pending # << >>
    /\ run'.event = run.event
    /\ run'.uploads = run.uploads
    /\ Len(run'.pending) < Len(run.pending)

LastMsg(r) == r.msgs[Len(r.msgs)]

Count(q, Test(_)) == Len(SelectSeq(q, Test))

\* C6: in an upload batch each file that uploads appends one record (selected
\* task, URL of the stated form) and none other; each file that fails appends
\* none and is reported as an error, and the files after it stay to be
\* attempted by the run; a batch that ran to its end reported as many errors
\* as files failed.
C6_OneRecordPerUploadedFile ==
    [][/\ FileStep =>
            /\ run'.pending = Tail(run.pending)
            /\ IF Head(run.pending).ok
               THEN /\ Len(images') = Len(images) + 1
                    /\ SubSeq(images', 1, Len(images)) = images
                    /\ images'[Len(images')].task_identifier = run.task
                    /\ IsUrlOf(images'[Len(images')].image_url, run.task,
                               Head(run.pending).name)
               ELSE /\ images' = images
                    /\ Len(run'.msgs) = Len(run.msgs) + 1
                    /\ LastMsg(run').level = "error"
                    /\ run'.outcome = "uploading"
       /\ run.outcome = "uploading" /\ run'.outcome = "completed"
             /\ run'.event = run.event /\ run.pending = << >> =>
            Count(run'.msgs, LAMBDA m : m.level = "error" /\ m.where = "main")
               = Count(run'.uploads, LAMBDA f : ~f.ok)
      ]_vars

\* ------------------------------------------------------ store claims ----
ToExcelRow(r) == [c \in DOMAIN r |-> ToExcelCell(c, r[c])]

RowDeletedAndSaved(r) ==
    /\ r.event.button = "Delete Row"
    /\ r.outcome # "MissingFile"
    /\ Len(r.df.rows) < Len(r.loaded.rows)
    /\ \E i \in 1..Len(r.msgs) : r.msgs[i].level = "success"

\* C7: a row removed by "Delete Row" is absent from the backing file after the
\* delete, and in the next interaction, a reload or a "Save Updates", it is
\* still absent from the in-memory table and from the backing file.
C7_DeletedRowStaysAbsent ==
    [][RowDeletedAndSaved(run) /\ run'.event.add_row = << >>
          /\ run'.event.button \in {"none", "Save Updates"}
          /\ run'.outcome # "MissingFile"
       => \A r \in Rows(run.loaded) \ Rows(run.df) :
             /\ ToExcelRow(r) \notin Rows(file.sheet)
             /\ r \notin Rows(run'.df)
             /\ ToExcelRow(r) \notin Rows(file'.sheet)
      ]_vars

\* an index that is a non-negative integer within the table
ValidIndex(s, t) == AllDigits(s) /\ ParseNat(s) < Len(t.rows)

InvalidInput(ev, t) ==
    \/ ev.button = "Delete Row" /\ ~ValidIndex(ev.delete_index, t)
    \/ ev.button = "Add Column" /\ (ev.new_col_name = "" \/ ev.new_col_name \in t.cols)
    \/ ev.button = "Delete Column" /\ ev.col_to_delete \notin t.cols

\* C9: an invalid management input is reported in the sidebar and the
\* operation is skipped: the in-memory table and the backing file are left as
\* they were.
C9_InvalidInputSkipped ==
    [][run'.outcome # "MissingFile" /\ InvalidInput(run'.event, run'.loaded) =>
          /\ ReportedAt(run', "sidebar")
          /\ run'.df = run'.loaded
          /\ file' = file
      ]_vars

WritingChange(ev, t) ==
    \/ ev.button = "Delete Row" /\ ValidIndex(ev.delete_index, t)
    \/ ev.button = "Add Column" /\ ev.new_col_name # "" /\ ev.new_col_name \notin t.cols
    \/ ev.button = "Delete Column" /\ ev.col_to_delete \in t.cols
    \/ ev.button = "Save Updates"

ChangeKept(r) ==
    CASE r.event.button = "Delete Row" ->
            /\ r.df.cols = r.loaded.cols
            /\ Len(r.df.rows) = Len(r.loaded.rows) - 1
      [] r.event.button = "Add Column" ->
            /\ r.df.cols = r.loaded.cols \cup {r.event.new_col_name}
            /\ Len(r.df.rows) = Len(r.loaded.rows)
      [] r.event.button = "Delete Column" ->
            /\ r.df.cols = r.loaded.cols \ {r.event.col_to_delete}
            /\ Len(r.df.rows) = Len(r.loaded.rows)
      [] OTHER -> r.df = r.loaded /\ r.edited_df.cols = r.df.cols

\* C10: when the write of a row delete, a column add, a column delete or a
\* save fails, an error is reported, the backing file keeps its content, the
\* table of that run keeps the change, and the run goes on to the rest of the
\* page.
C10_FailedWriteKeepsChange ==
    [][run'.outcome # "MissingFile" /\ ~run'.event.write_ok
          /\ WritingChange(run'.event, run'.loaded) =>
          /\ file' = file
          /\ \E i \in 1..Len(run'.msgs) : run'.msgs[i].level = "error"
          /\ ChangeKept(run')
          /\ cache'.valid
          /\ run'.selected_date_range # << >>
      ]_vars

\* -------------------------------------------------- completion claims ----
FinishedRows(t) ==
    {i \in 1..Len(t.rows) : Normalized(t.rows[i]["Status"]) = finished}

\* C11: the completion percentage is 0 for a table without rows, and else the
\* share of the rows whose trimmed, lowercased Status is "finished", times
\* 100, whatever the Progress of the rows.
C11_CompletionByStatus ==
    run.outcome = "completed" =>
        IF run.edited_df.rows = << >>
        THEN run.completion.num = 0 /\ run.completion.den > 0
        ELSE /\ run.completion.den > 0
             /\ run.completion.num * Len(run.edited_df.rows)
                   = 100 * Cardinality(FinishedRows(run.edited_df)) * run.completion.den

\* a table with a row counted for a status written " finished ", and a row
\* under way that is not counted
C11_Witness ==
    /\ run.outcome = "completed"
    /\ run.completion.num = 100
    /\ run.completion.den = 3
    /\ \E i \in 1..Len(run.edited_df.rows) :
          /\ run.edited_df.rows[i]["Status"] # Txt(Finished)
          /\ i \in FinishedRows(run.edited_df)
    /\ \E i \in 1..Len(run.edited_df.rows) :
          /\ run.edited_df.rows[i]["Progress"].n > 0
          /\ i \notin FinishedRows(run.edited_df)

\* ----------------------------------------------------- gallery claims ----
RecordsOf(imgs, task) == SelectSeq(imgs, LAMBDA r : r.task_identifier = task)

UrlsOf(imgs, task) ==
    [i \in 1..Len(RecordsOf(imgs, task)) |-> RecordsOf(imgs, task)[i].image_url]

\* C12: the images table only grows at its end, the records it holds are
\* never changed or removed, and the gallery of a run shows the URLs recorded
\* for the selected task, all of them and no other, in insertion order.
C12_AppendOnlyGallery ==
    [][/\ IsPrefix(images, images')
       /\ run'.outcome = "completed" /\ run' # run
             => run'.gallery = UrlsOf(images', run'.task)
      ]_vars

\* a gallery of two URLs of one task, recorded before and after a record of
\* another task
C12_Witness ==
    /\ run.outcome = "completed"
    /\ Len(images) = 3
    /\ images[1].task_identifier = run.task
    /\ images[2].task_identifier # run.task
    /\ images[3].task_identifier = run.task
    /\ run.gallery = << images[1].image_url, images[3].image_url >>
    /\ images[1].image_url # images[3].image_url

\* ----------------------------------------------- default view claims ----
\* the date range [minimum Start Date, maximum End Date] of a table
IsFullRange(t, r) ==
    /\ Len(r) = 2
    /\ r[1] = DateMin({t.rows[i]["Start Date"] : i \in 1..Len(t.rows)})
    /\ r[2] = DateMax({t.rows[i]["End Date"] : i \in 1..Len(t.rows)})

\* C13: with no value selected in any of the six filters, "show finished" on
\* and the date range [minimum Start Date, maximum End Date] of the edited
\* table, the filtered table holds every row of the edited table, rows
\* without a Start Date or an End Date included.
C13_DefaultViewShowsAllRows ==
    /\ run.outcome = "completed"
    /\ session.sel = NoSelection
    /\ session.show_finished
    /\ IsFullRange(run.edited_df, session.date_range)
    => run.df_filtered.rows = run.edited_df.rows

====
